---- MODULE Spec2Model ----
(***************************************************************************)
(* Model of the email-to-Telegram worker of src/src/index.ts.              *)
(*                                                                         *)
(* A JavaScript string is a sequence of one-character strings.  The        *)
(* regular expressions of the source are modelled operationally, the way   *)
(* the backtracking matcher of String.prototype.match/replace runs them:   *)
(* leftmost start, greedy \s* with backtracking, lazy (.*?) capture.       *)
(***************************************************************************)
EXTENDS Naturals, Sequences, FiniteSets, TLC

VARIABLES
    pc,          \* position inside that entry point
    content,     \* the string argument of the parse function / clean
    fwd,         \* result of parseForwardedMail
    tx,          \* result of parseTransactionDetails
    cleaned,     \* result of clean
    env,         \* handler: [token, chat] (TRUE = configured)
    email,       \* handler: what PostalMime.parse returned
    parts,       \* handler: the pieces concatenated into telegramMessage
    telegramMessage, \* handler: the message text
    sends,       \* handler: number of fetch calls made
    response,    \* handler: what fetch gave ("none" before the call)
    logs,        \* handler: console.error calls
    pending,     \* handler: exception in flight ("none" when there is none)
    propagated   \* handler: an exception left email()

vars == <<pc, content, fwd, tx, cleaned, env, email, parts,
          telegramMessage, sends, response, logs, pending, propagated>>

-----------------------------------------------------------------------------
(* Characters and character classes                                        *)

\* \s of ECMAScript, restricted to the ASCII characters of the model.
WS == {" ", "\t", "\n", "\r", "\f"}

\* What "." does not match (no s flag).
LineTerminators == {"\n", "\r"}

Digits == {"0", "1", "2", "3", "4", "5", "6", "7", "8", "9"}

ToLower ==
    ("A" :> "a") @@ ("B" :> "b") @@ ("C" :> "c") @@ ("D" :> "d") @@
    ("E" :> "e") @@ ("F" :> "f") @@ ("G" :> "g") @@ ("H" :> "h") @@
    ("I" :> "i") @@ ("J" :> "j") @@ ("K" :> "k") @@ ("L" :> "l") @@
    ("M" :> "m") @@ ("N" :> "n") @@ ("O" :> "o") @@ ("P" :> "p") @@
    ("Q" :> "q") @@ ("R" :> "r") @@ ("S" :> "s") @@ ("T" :> "t") @@
    ("U" :> "u") @@ ("V" :> "v") @@ ("W" :> "w") @@ ("X" :> "x") @@
    ("Y" :> "y") @@ ("Z" :> "z")

UpperLetters == DOMAIN ToLower

LowerLetters == {ToLower[c] : c \in UpperLetters}

Letters == UpperLetters \cup LowerLetters

\* Canonicalisation of the i flag.
Lower(c) == IF c \in UpperLetters THEN ToLower[c] ELSE c

\* [a-zA-Z0-9._%+-]
LocalChars == Letters \cup Digits \cup {".", "_", "%", "+", "-"}

\* [a-zA-Z0-9.-]
DomainChars == Letters \cup Digits \cup {".", "-"}

-----------------------------------------------------------------------------
(* String helpers                                                          *)

\* s.slice(i-1, j): 1-based, inclusive, empty when j < i.
Slice(s, i, j) == IF j < i THEN <<>> ELSE SubSeq(s, i, j)

\* The literal lit (case-sensitive) stands in s at position i.
LitAt(s, i, lit) ==
    /\ i >= 1
    /\ i + Len(lit) - 1 <= Len(s)
    /\ \A k \in 1..Len(lit) : s[i + k - 1] = lit[k]

\* The literal lit (given in lower case) stands in s at i, under the i flag.
LitAtCI(s, i, lit) ==
    /\ i >= 1
    /\ i + Len(lit) - 1 <= Len(s)
    /\ \A k \in 1..Len(lit) : Lower(s[i + k - 1]) = lit[k]

\* Greedy run: the first position >= i whose character is not in class
\* (Len(s) + 1 when the run reaches the end).
RECURSIVE RunEnd(_, _, _)
RunEnd(s, i, class) ==
    IF i <= Len(s) /\ s[i] \in class THEN RunEnd(s, i + 1, class) ELSE i

\* String.prototype.trim
RECURSIVE TrimLeft(_)
TrimLeft(s) ==
    IF s # <<>> /\ Head(s) \in WS THEN TrimLeft(Tail(s)) ELSE s

RECURSIVE TrimRight(_)
TrimRight(s) ==
    IF s # <<>> /\ s[Len(s)] \in WS THEN TrimRight(Slice(s, 1, Len(s) - 1))
    ELSE s

Trim(s) == TrimRight(TrimLeft(s))

\* First position >= i holding c, 0 when there is none.
RECURSIVE IndexOf(_, _, _)
IndexOf(s, i, c) ==
    IF i > Len(s) THEN 0
    ELSE IF s[i] = c THEN i
    ELSE IndexOf(s, i + 1, c)

\* s.replace(/<[^>]*>/g, rep): every "<", anything but ">", ">" becomes rep.
RECURSIVE ReplaceTagsFrom(_, _, _)
ReplaceTagsFrom(s, i, rep) ==
    IF i > Len(s) THEN <<>>
    ELSE IF s[i] = "<" /\ IndexOf(s, i + 1, ">") # 0
         THEN rep \o ReplaceTagsFrom(s, IndexOf(s, i + 1, ">") + 1, rep)
         ELSE <<s[i]>> \o ReplaceTagsFrom(s, i + 1, rep)

ReplaceTags(s, rep) == ReplaceTagsFrom(s, 1, rep)

\* s.replace(/lit/g, rep) for a literal pattern, case-sensitive.
RECURSIVE ReplaceAllFrom(_, _, _, _)
ReplaceAllFrom(s, i, lit, rep) ==
    IF i > Len(s) THEN <<>>
    ELSE IF LitAt(s, i, lit)
         THEN rep \o ReplaceAllFrom(s, i + Len(lit), lit, rep)
         ELSE <<s[i]>> \o ReplaceAllFrom(s, i + 1, lit, rep)

ReplaceAll(s, lit, rep) == ReplaceAllFrom(s, 1, lit, rep)

\* s.replace(/\s+/g, ' ')
RECURSIVE CollapseWSFrom(_, _)
CollapseWSFrom(s, i) ==
    IF i > Len(s) THEN <<>>
    ELSE IF s[i] \in WS
         THEN <<" ">> \o CollapseWSFrom(s, RunEnd(s, i, WS))
         ELSE <<s[i]>> \o CollapseWSFrom(s, i + 1)

CollapseWS(s) == CollapseWSFrom(s, 1)

Nbsp == <<"&", "n", "b", "s", "p", ";">>

-----------------------------------------------------------------------------
(* The matcher shared by the label regular expressions                     *)

\* A label is a sequence of lower-case literals separated by \s* in the
\* pattern.  Position after the label when it stands at i, else 0.
RECURSIVE TokensEnd(_, _, _)
TokensEnd(s, i, toks) ==
    IF toks = <<>> THEN i
    ELSE IF LitAtCI(s, i, Head(toks))
         THEN IF Tail(toks) = <<>> THEN i + Len(Head(toks))
              ELSE TokensEnd(s, RunEnd(s, i + Len(Head(toks)), WS), Tail(toks))
         ELSE 0

\* The group that ends a capture:
\*   "line"  is (?:\r?\n|$)            (parseForwardedMail; no m flag, so $
\*                                      is the end of the input only)
\*   "block" is (?:<br|<\/p>|&nbsp;|\n) (parseTransactionDetails, i flag)
TermAt(s, r, kind) ==
    IF kind = "line"
    THEN \/ LitAt(s, r, <<"\r", "\n">>)
         \/ LitAt(s, r, <<"\n">>)
         \/ r = Len(s) + 1
    ELSE \/ LitAtCI(s, r, <<"<", "b", "r">>)
         \/ LitAtCI(s, r, <<"<", "/", "p", ">">>)
         \/ LitAtCI(s, r, Nbsp)
         \/ LitAt(s, r, <<"\n">>)

\* (.*?) followed by the terminator, entered at q: the first r >= q where
\* the terminator stands, every character before it being matched by ".";
\* 0 when the lazy scan fails.
RECURSIVE LazyEnd(_, _, _)
LazyEnd(s, r, kind) ==
    IF TermAt(s, r, kind) THEN r
    ELSE IF r > Len(s) THEN 0
    ELSE IF s[r] \in LineTerminators THEN 0
    ELSE LazyEnd(s, r + 1, kind)

\* \s*(.*?)(?:terminator) entered at p: \s* is greedy and gives characters
\* back one at a time; q runs from the end of the whitespace run down to p.
\* Result: the capture's first position, 0 when every q fails.
RECURSIVE CaptureStart(_, _, _, _)
CaptureStart(s, p, q, kind) ==
    IF LazyEnd(s, q, kind) # 0 THEN q
    ELSE IF q > p THEN CaptureStart(s, p, q - 1, kind)
    ELSE 0

NoMatch == [ok |-> FALSE, start |-> 0, labelEnd |-> 0, cap |-> <<>>]

\* One attempt of the whole pattern at start position i, the label
\* alternatives tried in source order.
RECURSIVE MatchAt(_, _, _, _)
MatchAt(s, i, alts, kind) ==
    IF alts = <<>> THEN NoMatch
    ELSE LET e == TokensEnd(s, i, Head(alts))
             q == IF e = 0 THEN 0
                  ELSE CaptureStart(s, e, RunEnd(s, e, WS), kind)
         IN  IF q # 0
             THEN [ok |-> TRUE, start |-> i, labelEnd |-> e,
                   cap |-> Slice(s, q, LazyEnd(s, q, kind) - 1)]
             ELSE MatchAt(s, i, Tail(alts), kind)

\* s.match(re) without the g flag: the attempt at the leftmost start
\* position that succeeds.
RECURSIVE MatchFrom(_, _, _, _)
MatchFrom(s, i, alts, kind) ==
    IF i > Len(s) THEN NoMatch
    ELSE LET m == MatchAt(s, i, alts, kind)
         IN  IF m.ok THEN m ELSE MatchFrom(s, i + 1, alts, kind)

Match(s, alts, kind) == MatchFrom(s, 1, alts, kind)

-----------------------------------------------------------------------------
(* parseForwardedMail                                                      *)

Unset == [set |-> FALSE, val |-> <<>>]

Some(v) == [set |-> TRUE, val |-> v]

\* content.replace(/<br\s*\/?>/gi, '\n')
BrEnd(s, i) ==
    IF ~LitAtCI(s, i, <<"<", "b", "r">>) THEN 0
    ELSE LET a == RunEnd(s, i + 3, WS)
             b == IF LitAt(s, a, <<"/">>) THEN a + 1 ELSE a
         IN  IF LitAt(s, b, <<">">>) THEN b + 1 ELSE 0

RECURSIVE NormalizeFrom(_, _)
NormalizeFrom(s, i) ==
    IF i > Len(s) THEN <<>>
    ELSE IF BrEnd(s, i) # 0
         THEN <<"\n">> \o NormalizeFrom(s, BrEnd(s, i))
         ELSE <<s[i]>> \o NormalizeFrom(s, i + 1)

Normalize(s) == NormalizeFrom(s, 1)

FromLabels == << << <<"d", "a", "r", "i", ":">> >>,
                 << <<"f", "r", "o", "m", ":">> >> >>

DateLabels == << << <<"d", "a", "t", "e", ":">> >>,
                 << <<"t", "a", "n", "g", "g", "a", "l", ":">> >>,
                 << <<"s", "e", "n", "t", ":">> >> >>

SubjectLabels == << << <<"s", "u", "b", "j", "e", "c", "t", ":">> >> >>

fromMatch(normalized) == Match(normalized, FromLabels, "line")

dateMatch(normalized) == Match(normalized, DateLabels, "line")

subjectMatch(normalized) == Match(normalized, SubjectLabels, "line")

\* /([a-zA-Z0-9._%+-]+@[a-zA-Z0-9.-]+\.[a-zA-Z]{2,})/ attempted at i.
\* The local part is greedy and must run up to the "@"; the domain is
\* greedy and is given back one character at a time (d runs down) until
\* "." and at least two letters follow.  Result: position after the match,
\* 0 when the attempt fails.
RECURSIVE EmailDomainEnd(_, _, _)
EmailDomainEnd(s, a, d) ==
    IF d <= a THEN 0
    ELSE IF LitAt(s, d, <<".">>) /\ RunEnd(s, d + 1, Letters) >= d + 3
         THEN RunEnd(s, d + 1, Letters)
         ELSE EmailDomainEnd(s, a, d - 1)

EmailEndAt(s, i) ==
    LET l == RunEnd(s, i, LocalChars)
    IN  IF l > i /\ LitAt(s, l, <<"@">>)
        THEN EmailDomainEnd(s, l + 1, RunEnd(s, l + 1, DomainChars))
        ELSE 0

RECURSIVE emailMatchFrom(_, _)
emailMatchFrom(s, i) ==
    IF i > Len(s) THEN [ok |-> FALSE, val |-> <<>>]
    ELSE IF EmailEndAt(s, i) # 0
         THEN [ok |-> TRUE, val |-> Slice(s, i, EmailEndAt(s, i) - 1)]
         ELSE emailMatchFrom(s, i + 1)

emailMatch(rawFrom) == emailMatchFrom(rawFrom, 1)

\* Lines 110-111: the fallback when the sender line holds no address.
FromFallback(rawFrom) ==
    LET a == Trim(CollapseWS(ReplaceTags(rawFrom, <<" ">>)))
        b == ReplaceAll(a, <<"&", "l", "t", ";">>, <<"<">>)
        c == ReplaceAll(b, <<"&", "g", "t", ";">>, <<">">>)
    IN  ReplaceAll(c, <<"&", "a", "m", "p", ";">>, <<"&">>)

\* Variant of FromField: the address is never singled out of the line.
FromFieldWholeLine(m) ==
    IF m.ok /\ m.cap # <<>> THEN Some(FromFallback(m.cap)) ELSE Unset

\* Lines 102-113.
FromField(m) ==
    IF m.ok /\ m.cap # <<>>
    THEN IF emailMatch(m.cap).ok THEN Some(emailMatch(m.cap).val)
         ELSE Some(FromFallback(m.cap))
    ELSE Unset

\* Variant of LineField: presence decided by the match alone.
LineFieldMatchOnly(m) ==
    IF m.ok THEN Some(Trim(ReplaceTags(m.cap, <<>>))) ELSE Unset

\* Lines 117-119 and 124-126.
LineField(m) ==
    IF m.ok /\ m.cap # <<>>
    THEN Some(Trim(ReplaceTags(m.cap, <<>>)))
    ELSE Unset

parseForwardedMail(c) ==
    LET normalized == Normalize(c)
    IN  [from    |-> FromField(fromMatch(normalized)),
         subject |-> LineField(subjectMatch(normalized)),
         date    |-> LineField(dateMatch(normalized))]

-----------------------------------------------------------------------------
(* parseTransactionDetails                                                 *)

NA == <<"N", "/", "A">>

\* Variant of clean: &nbsp; decoded before the tags are stripped.
cleanNbspFirst(text) ==
    Trim(ReplaceTags(ReplaceAll(text, Nbsp, <<" ">>), <<>>))

\* Line 71: text.replace(/<[^>]*>/g, '').replace(/&nbsp;/g, ' ').trim()
clean(text) == Trim(ReplaceAll(ReplaceTags(text, <<>>), Nbsp, <<" ">>))

KartuLabel == << <<"4">>, <<"d", "i", "g", "i", "t">>,
                 <<"a", "k", "h", "i", "r">>,
                 <<"k", "a", "r", "t", "u">>, <<":">> >>

MerchantLabels == << << <<"m", "e", "r", "c", "h", "a", "n", "t", "/",
                          "a", "t", "m">>, <<":">> >> >>

TanggalLabels == << << <<"t", "a", "n", "g", "g", "a", "l">>,
                       <<"t", "r", "a", "n", "s", "a", "k", "s", "i">>,
                       <<":">> >> >>

NominalLabels == << << <<"n", "o", "m", "i", "n", "a", "l">>, <<":">> >> >>

\* Variant of KartuAt: the pattern without (?:&nbsp;)?.
KartuAtNoNbsp(s, i) ==
    LET e == TokensEnd(s, i, KartuLabel)
        c == RunEnd(s, e, WS)
    IN  IF e # 0 /\ RunEnd(s, c, Digits) >= c + 4
        THEN [ok |-> TRUE, start |-> i, labelEnd |-> e,
              cap |-> Slice(s, c, c + 3)]
        ELSE NoMatch

\* /4\s*digit\s*Akhir\s*Kartu\s*:\s*(?:&nbsp;)?\s*(\d{4})/i attempted at i.
\* Every \s* is followed by something that is not white space and the
\* optional &nbsp; cannot be re-read as white space or a digit, so giving
\* characters back never finds another match: the attempt is deterministic.
KartuAt(s, i) ==
    LET e == TokensEnd(s, i, KartuLabel)
        a == RunEnd(s, e, WS)
        b == IF LitAtCI(s, a, Nbsp) THEN a + Len(Nbsp) ELSE a
        c == RunEnd(s, b, WS)
    IN  IF e # 0 /\ RunEnd(s, c, Digits) >= c + 4
        THEN [ok |-> TRUE, start |-> i, labelEnd |-> e,
              cap |-> Slice(s, c, c + 3)]
        ELSE NoMatch

RECURSIVE KartuFrom(_, _)
KartuFrom(s, i) ==
    IF i > Len(s) THEN NoMatch
    ELSE IF KartuAt(s, i).ok THEN KartuAt(s, i)
    ELSE KartuFrom(s, i + 1)

kartuMatch(html) == KartuFrom(html, 1)

merchantMatch(html) == Match(html, MerchantLabels, "block")

tanggalMatch(html) == Match(html, TanggalLabels, "block")

nominalMatch(html) == Match(html, NominalLabels, "block")

\* Variant of TxField: the field left empty when nothing is captured.
TxFieldEmptyDefault(m) == IF m.ok /\ m.cap # <<>> THEN clean(m.cap) ELSE <<>>

\* "if (m && m[1]) field = clean(m[1])"
TxField(m) == IF m.ok /\ m.cap # <<>> THEN clean(m.cap) ELSE NA

parseTransactionDetails(html) ==
    IF html = <<>>
    THEN [akhirKartu |-> NA, merchant |-> NA, tanggalTransaksi |-> NA,
          nominal |-> NA]
    ELSE [akhirKartu       |-> TxField(kartuMatch(html)),
          merchant         |-> TxField(merchantMatch(html)),
          tanggalTransaksi |-> TxField(tanggalMatch(html)),
          nominal          |-> TxField(nominalMatch(html))]

-----------------------------------------------------------------------------
(* Inputs                                                                  *)

\* Most fragments concatenated into one input.
MaxFrags == 3

\* Most fragments concatenated into one argument of clean.
MaxCleanFrags == 4

\* Most fragments concatenated into the text body of a handled email.
MaxEmailFrags == 2

RECURSIVE Concats(_, _)
Concats(frags, n) ==
    IF n = 0 THEN {<<>>}
    ELSE LET shorter == Concats(frags, n - 1)
         IN  shorter \cup {f \o t : f \in frags, t \in shorter}

FwdFragments ==
    { <<"F", "r", "o", "m", ":">>, <<"D", "a", "r", "i", ":">>,
      <<"D", "a", "t", "e", ":">>,
      <<"S", "u", "b", "j", "e", "c", "t", ":">>,
      <<" ">>, <<"\n">>, <<"\r">>, <<"<", "b", "r", ">">>,
      <<"a", "@", "b", ".", "c", "c">>, <<"x">>, <<"<", "i", ">">>,
      <<"@">>, <<".">> }

TxFragments ==
    { <<"4", " ", "d", "i", "g", "i", "t", " ", "A", "k", "h", "i", "r", " ",
        "K", "a", "r", "t", "u", ":">>,
      <<"1", "2", "3", "4">>,
      <<"M", "e", "r", "c", "h", "a", "n", "t", "/", "A", "T", "M", ":">>,
      <<"T", "a", "n", "g", "g", "a", "l", " ", "T", "r", "a", "n", "s", "a",
        "k", "s", "i", ":">>,
      <<"N", "o", "m", "i", "n", "a", "l", ":">>,
      Nbsp, <<"<", "b", "r", ">">>, <<"\n">>, <<" ">>,
      <<"S", "<", "b", "r", ">">> }

CleanFragments ==
    { <<"<">>, <<">">>, <<"a">>, <<" ">>, <<"\n">>, Nbsp,
      <<"&", "n", "b">>, <<"s", "p", ";">> }

ExampleTransaction ==
    <<"4", " ", "d", "i", "g", "i", "t", " ", "A", "k", "h", "i", "r", " ",
      "K", "a", "r", "t", "u", ":", " ", "1", "2", "3", "4", "<", "b", "r",
      ">", "M", "e", "r", "c", "h", "a", "n", "t", "/", "A", "T", "M", ":",
      " ", "S", "t", "a", "r", "b", "u", "c", "k", "s", "<", "b", "r", ">",
      "T", "a", "n", "g", "g", "a", "l", " ", "T", "r", "a", "n", "s", "a",
      "k", "s", "i", ":", " ", "0", "1", "/", "0", "1", "/", "2", "0", "2",
      "4", "<", "b", "r", ">", "N", "o", "m", "i", "n", "a", "l", ":", " ",
      "R", "p", " ", "5", "0", ".", "0", "0", "0">>

ExampleForwarded ==
    <<"F", "r", "o", "m", ":", " ", "J", "a", "n", "e", " ", "D", "o", "e",
      " ", "<", "j", "a", "n", "e", "@", "e", "x", "a", "m", "p", "l", "e",
      ".", "c", "o", "m", ">", "\n", "D", "a", "t", "e", ":", " ", "M",
      "o", "n", ",", " ", "1", " ", "J", "a", "n", " ", "2", "0", "2", "4",
      "\n", "S", "u", "b", "j", "e", "c", "t", ":", " ", "H", "e", "l",
      "l", "o">>

ExJane ==
    <<"j", "a", "n", "e", "@", "e", "x", "a", "m", "p", "l", "e", ".", "c",
      "o", "m">>

ExDate ==
    <<"M", "o", "n", ",", " ", "1", " ", "J", "a", "n", " ", "2", "0", "2",
      "4">>

ExHello ==
    <<"H", "e", "l", "l", "o">>

ExStarbucks ==
    <<"S", "t", "a", "r", "b", "u", "c", "k", "s">>

ExTanggal ==
    <<"0", "1", "/", "0", "1", "/", "2", "0", "2", "4">>

ExNominal ==
    <<"R", "p", " ", "5", "0", ".", "0", "0", "0">>

ExKartu ==
    <<"1", "2", "3", "4">>

Inputs ==
    Concats(FwdFragments, MaxFrags) \cup Concats(TxFragments, MaxFrags)
        \cup {ExampleTransaction, ExampleForwarded}

CleanInputs == Concats(CleanFragments, MaxCleanFrags)

-----------------------------------------------------------------------------
(* scripts/test-local.ts: both extractors applied to one decoded body      *)

NoFwd == [from |-> Unset, subject |-> Unset, date |-> Unset]

NoTx == [akhirKartu |-> <<>>, merchant |-> <<>>, tanggalTransaksi |-> <<>>,
         nominal |-> <<>>]

NoEmail == [parsed |-> FALSE, text |-> <<>>, html |-> <<>>, subject |-> <<>>,
            hasFrom |-> FALSE, name |-> <<>>, address |-> <<>>]

HandlerIdle ==
    /\ env = [token |-> FALSE, chat |-> FALSE]
    /\ email = NoEmail
    /\ parts = <<>>
    /\ telegramMessage = <<>>
    /\ sends = 0
    /\ response = "none"
    /\ logs = <<>>
    /\ pending = "none"
    /\ propagated = FALSE

handlerVars == <<env, email, parts, telegramMessage, sends, response, logs,
                 pending, propagated>>

Init ==
    /\ pc = "start"
    /\ content \in Inputs
    /\ fwd = NoFwd
    /\ tx = NoTx
    /\ cleaned = <<>>
    /\ HandlerIdle

\* test-local.ts line 24
ParseForwarded ==
    /\ pc = "start"
    /\ fwd' = parseForwardedMail(content)
    /\ pc' = "forwarded"
    /\ UNCHANGED <<content, tx, cleaned, handlerVars>>

\* test-local.ts line 29
ParseTransaction ==
    /\ pc = "forwarded"
    /\ tx' = parseTransactionDetails(content)
    /\ pc' = "done"
    /\ UNCHANGED <<content, fwd, cleaned, handlerVars>>

Next == ParseForwarded \/ ParseTransaction

Spec == Init /\ [][Next]_vars

-----------------------------------------------------------------------------
(* clean applied to arbitrary text                                         *)

InitClean ==
    /\ pc = "start"
    /\ content \in CleanInputs
    /\ fwd = NoFwd
    /\ tx = NoTx
    /\ cleaned = <<>>
    /\ HandlerIdle

Clean ==
    /\ pc = "start"
    /\ cleaned' = clean(content)
    /\ pc' = "done"
    /\ UNCHANGED <<content, fwd, tx, handlerVars>>

NextClean == Clean

SpecClean == InitClean /\ [][NextClean]_vars

-----------------------------------------------------------------------------
(* Vocabulary of the properties                                            *)

\* The label phrase toks stands at i: its words in order, nothing but white
\* space between them.
RECURSIVE PhraseAt(_, _, _)
PhraseAt(s, i, toks) ==
    /\ LitAtCI(s, i, Head(toks))
    /\ \/ Tail(toks) = <<>>
       \/ \E k \in (i + Len(Head(toks)))..Len(s) :
              /\ \A x \in (i + Len(Head(toks)))..(k - 1) : s[x] \in WS
              /\ PhraseAt(s, k, Tail(toks))

\* Some label of the field occurs somewhere in s.
LabelOccurs(s, alts) ==
    \E a \in 1..Len(alts), i \in 1..Len(s) : PhraseAt(s, i, alts[a])

LabelAt(s, i, alts) == \E a \in 1..Len(alts) : PhraseAt(s, i, alts[a])

\* Position of the first occurrence of a label of the field (0: none).
FirstLabel(s, alts) ==
    IF LabelOccurs(s, alts)
    THEN CHOOSE i \in 1..Len(s) :
             /\ LabelAt(s, i, alts)
             /\ \A j \in 1..(i - 1) : ~LabelAt(s, j, alts)
    ELSE 0

\* Position just after the colon of the label phrase standing at i.
AfterLabel(s, i) == IndexOf(s, i, ":") + 1

\* The rest of the line from position p: up to the next newline, or the end.
LineRest(s, p) ==
    IF IndexOf(s, p, "\n") = 0 THEN Slice(s, p, Len(s))
    ELSE Slice(s, p, IndexOf(s, p, "\n") - 1)

AllWS(s) == \A k \in 1..Len(s) : s[k] \in WS

\* s[i..j] has the shape local-part@domain, the domain ending in a dot and
\* at least two letters.
IsAddress(s, i, j) ==
    \E a \in (i + 1)..(j - 4) :
        /\ s[a] = "@"
        /\ \A k \in i..(a - 1) : s[k] \in LocalChars
        /\ \E d \in (a + 2)..(j - 2) :
               /\ s[d] = "."
               /\ \A k \in (a + 1)..(d - 1) : s[k] \in DomainChars
               /\ \A k \in (d + 1)..j : s[k] \in Letters

HasAddress(s) == \E i \in 1..Len(s), j \in 1..Len(s) : IsAddress(s, i, j)

\* v is the leftmost address-shaped substring of s (the longest one at
\* that leftmost start).
IsLeftmostAddress(s, v) ==
    \E i \in 1..Len(s), j \in 1..Len(s) :
        /\ IsAddress(s, i, j)
        /\ v = Slice(s, i, j)
        /\ \A i2 \in 1..Len(s), j2 \in 1..Len(s) :
               IsAddress(s, i2, j2) => (i < i2 \/ (i = i2 /\ j2 <= j))

Forwarded == pc \in {"forwarded", "done"}

FwdFields == {"from", "date", "subject"}

FwdLabels(f) ==
    IF f = "from" THEN FromLabels
    ELSE IF f = "date" THEN DateLabels
    ELSE SubjectLabels

\* The match the source computes for field f.
FwdMatch(f, normalized) ==
    IF f = "from" THEN fromMatch(normalized)
    ELSE IF f = "date" THEN dateMatch(normalized)
    ELSE subjectMatch(normalized)

TxFields == {"akhirKartu", "merchant", "tanggalTransaksi", "nominal"}

TxLabels(f) ==
    IF f = "akhirKartu" THEN <<KartuLabel>>
    ELSE IF f = "merchant" THEN MerchantLabels
    ELSE IF f = "tanggalTransaksi" THEN TanggalLabels
    ELSE NominalLabels

-----------------------------------------------------------------------------
(* C1                                                                      *)

\* The first label of field f is followed by a value that runs to the end
\* of the input: no <br, </p>, &nbsp; or line break after the label.
ValueToEnd(s, f) ==
    LET i == FirstLabel(s, TxLabels(f))
        e == AfterLabel(s, i)
    IN  /\ i # 0
        /\ ~AllWS(Slice(s, e, Len(s)))
        /\ \A r \in e..Len(s) :
               ~TermAt(s, r, "block") /\ s[r] \notin LineTerminators

\* C1: parseTransactionDetails of the documented example returns the four
\* documented values, and a merchant, date or amount value that runs to the
\* end of the input is extracted.
C1_ValueAtEndExtracted ==
    pc = "done" =>
        /\ content = ExampleTransaction =>
               tx = [akhirKartu |-> ExKartu, merchant |-> ExStarbucks,
                     tanggalTransaksi |-> ExTanggal, nominal |-> ExNominal]
        /\ \A f \in {"merchant", "tanggalTransaksi", "nominal"} :
               ValueToEnd(content, f) =>
                   tx[f] = clean(Slice(content,
                                       AfterLabel(content,
                                           FirstLabel(content, TxLabels(f))),
                                       Len(content)))

-----------------------------------------------------------------------------
(* C2                                                                      *)

\* The rest of the line on which the sender pattern matched.
SenderLineRest(normalized) ==
    LineRest(normalized, fromMatch(normalized).labelEnd)

SenderLineHasAddress(normalized) ==
    /\ fromMatch(normalized).ok
    /\ HasAddress(SenderLineRest(normalized))

\* C2: when the rest of the matched sender line holds an address-shaped
\* substring, from is exactly the leftmost one; the documented example
\* yields the documented record.
C2_LeftmostAddress ==
    Forwarded =>
        /\ SenderLineHasAddress(Normalize(content)) =>
               /\ fwd.from.set
               /\ IsLeftmostAddress(SenderLineRest(Normalize(content)),
                                    fwd.from.val)
        /\ content = ExampleForwarded =>
               fwd = [from |-> Some(ExJane), date |-> Some(ExDate),
                      subject |-> Some(ExHello)]

\* Two addresses run together on a sender line that holds other text.
C2_Witness ==
    /\ pc = "done"
    /\ SenderLineHasAddress(Normalize(content))
    /\ fwd.from.set
    /\ Len(fwd.from.val) < Len(Trim(SenderLineRest(Normalize(content))))

-----------------------------------------------------------------------------
(* C3                                                                      *)

\* C3: a field none of whose label phrases occurs in the input keeps its
\* default: unset for from, date, subject; "N/A" for the four transaction
\* fields; each field on its own.
C3_AbsentLabelDefault ==
    /\ Forwarded =>
           \A f \in FwdFields :
               ~LabelOccurs(content, FwdLabels(f)) => fwd[f] = Unset
    /\ pc = "done" =>
           \A f \in TxFields :
               ~LabelOccurs(content, TxLabels(f)) => tx[f] = NA

\* One transaction field extracted while another, and the sender, stay at
\* their defaults for want of a label.
C3_Witness ==
    /\ pc = "done"
    /\ tx.merchant # NA
    /\ ~LabelOccurs(content, NominalLabels)
    /\ tx.nominal = NA
    /\ ~LabelOccurs(content, FromLabels)
    /\ fwd.from = Unset

-----------------------------------------------------------------------------
(* C4                                                                      *)

\* The first label of field f stands in s and the rest of its line is empty
\* or white space.
LabelWithBlankLine(s, f) ==
    /\ FirstLabel(s, FwdLabels(f)) # 0
    /\ AllWS(LineRest(s, AfterLabel(s, FirstLabel(s, FwdLabels(f)))))

\* The first label of field f stands in s and only white space follows it,
\* to the end of the input.
LabelThenBlankToEnd(s, f) ==
    /\ FirstLabel(s, FwdLabels(f)) # 0
    /\ AllWS(Slice(s, AfterLabel(s, FirstLabel(s, FwdLabels(f))), Len(s)))

-----------------------------------------------------------------------------
(* C6                                                                      *)

BeginsLine(s, i) == i = 1 \/ s[i - 1] = "\n"

\* C6: a field is set only if one of its labels begins a line of the
\* normalised input.
C6_LabelBeginsLine ==
    Forwarded =>
        \A f \in FwdFields :
            fwd[f].set =>
                \E i \in 1..Len(Normalize(content)) :
                    /\ LabelAt(Normalize(content), i, FwdLabels(f))
                    /\ BeginsLine(Normalize(content), i)

-----------------------------------------------------------------------------
(* C7                                                                      *)

\* What field f is when derived from the text v of the label's own line.
DerivedFrom(f, v) ==
    IF f = "from"
    THEN IF HasAddress(v) THEN emailMatch(v).val ELSE FromFallback(v)
    ELSE Trim(ReplaceTags(v, <<>>))

\* C7: the value of a set field is derived from the rest of the line on
\* which its label matched, and from nothing after that line.
C7_LineScoped ==
    Forwarded =>
        \A f \in FwdFields :
            fwd[f].set =>
                fwd[f].val =
                    DerivedFrom(f, LineRest(Normalize(content),
                                   FwdMatch(f, Normalize(content)).labelEnd))

-----------------------------------------------------------------------------
(* C8                                                                      *)

\* Position of an &nbsp; token standing between the colon of the first
\* label of field f and a value (0: the input has no such form).  The value
\* is four digits for the card suffix; for the other fields a run of text
\* ended by a terminator.
NbspAfterLabel(s, f) ==
    LET i == FirstLabel(s, TxLabels(f))
        e == AfterLabel(s, i)
        v == e + Len(Nbsp)
    IN  IF i = 0 \/ ~LitAt(s, e, Nbsp) THEN 0
        ELSE IF f = "akhirKartu"
             THEN IF RunEnd(s, v, Digits) >= v + 4 THEN e ELSE 0
             ELSE IF /\ v <= Len(s)
                     /\ s[v] \notin WS \cup {"<", "&"}
                     /\ \E r \in (v + 1)..Len(s) :
                            /\ TermAt(s, r, "block")
                            /\ \A k \in v..(r - 1) :
                                   s[k] \notin WS \cup {"<", "&"}
                  THEN e
                  ELSE 0

\* s without the &nbsp; token standing at e.
WithoutNbsp(s, e) == Slice(s, 1, e - 1) \o Slice(s, e + Len(Nbsp), Len(s))

\* C8 as claimed: for each of the four fields, label, colon, &nbsp;, value
\* yields the same field value as the input without the &nbsp; token.
C8_NbspTolerated ==
    pc = "done" =>
        \A f \in TxFields :
            NbspAfterLabel(content, f) # 0 =>
                tx[f] = parseTransactionDetails(
                            WithoutNbsp(content, NbspAfterLabel(content, f)))[f]

\* C8 as amended: the &nbsp; token is tolerated for the card suffix only;
\* for merchant, transaction date and amount an &nbsp; right after the
\* colon ends an empty capture and the field stays "N/A".
C8_NbspOnlyCardSuffix ==
    pc = "done" =>
        /\ NbspAfterLabel(content, "akhirKartu") # 0 =>
               /\ tx.akhirKartu # NA
               /\ tx.akhirKartu = parseTransactionDetails(
                      WithoutNbsp(content,
                                  NbspAfterLabel(content, "akhirKartu"))
                      ).akhirKartu
        /\ \A f \in {"merchant", "tanggalTransaksi", "nominal"} :
               NbspAfterLabel(content, f) # 0 => tx[f] = NA

\* A card suffix read across an &nbsp; token.
C8_Witness ==
    /\ pc = "done"
    /\ NbspAfterLabel(content, "akhirKartu") # 0
    /\ tx.akhirKartu = ExKartu

-----------------------------------------------------------------------------
(* C9                                                                      *)

HasTag(s) ==
    \E i \in 1..Len(s), j \in 1..Len(s) : i < j /\ s[i] = "<" /\ s[j] = ">"

HasNbsp(s) == \E i \in 1..Len(s) : LitAt(s, i, Nbsp)

\* C9: clean is idempotent, and its result holds no tag, no &nbsp; token
\* and no white space at either end.
C9_CleanIdempotent ==
    pc = "done" =>
        /\ clean(cleaned) = cleaned
        /\ ~HasTag(cleaned)
        /\ ~HasNbsp(cleaned)
        /\ cleaned # <<>> => cleaned[1] \notin WS /\ cleaned[Len(cleaned)] \notin WS

\* A tag and an &nbsp; token (decoded to a space that trim then removes)
\* taken out of a text of which something remains.
C9_Witness ==
    /\ pc = "done"
    /\ HasTag(content)
    /\ HasNbsp(content)
    /\ cleaned # <<>>
    /\ Len(cleaned) + Len(Nbsp) + 2 <= Len(content)

-----------------------------------------------------------------------------
(* The email handler                                                       *)

\* Two characters a TLA+ string literal cannot hold, by name: the backtick
\* and the envelope sign that opens the message.
Backtick == "BACKTICK"

Envelope == "ENVELOPE"

\* [_*`\[]
MarkdownSpecial == {"_", "*", Backtick, "["}

\* text.replace(/[_*`\[]/g, '\\$&')
RECURSIVE EscapeFrom(_, _)
EscapeFrom(text, i) ==
    IF i > Len(text) THEN <<>>
    ELSE IF text[i] \in MarkdownSpecial
         THEN <<"\\", text[i]>> \o EscapeFrom(text, i + 1)
         ELSE <<text[i]>> \o EscapeFrom(text, i + 1)

escapeMarkdown(text) == IF text = <<>> THEN <<>> ELSE EscapeFrom(text, 1)

\* a || b on strings; undefined and '' are both falsy and both <<>> here.
Or(a, b) == IF a # <<>> THEN a ELSE b

\* forwarded.field || b
OptOr(o, b) == IF o.set /\ o.val # <<>> THEN o.val ELSE b

LitHead ==
    <<Envelope, " ", "*">>

LitAfterFrom ==
    <<"*", "\n">>

LitSubject ==
    <<"*", "S", "u", "b", "j", "e", "c", "t", ":", "*", " ">>

LitNewline ==
    <<"\n">>

LitDate ==
    <<"*", "D", "a", "t", "e", ":", "*", " ">>

LitKartu ==
    <<"\n", "*", "D", "e", "t", "a", "i", "l", " ", "T", "r", "a", "n",
      "s", "a", "k", "s", "i", ":", "*", "\n", "*", "4", " ", "d", "i",
      "g", "i", "t", " ", "A", "k", "h", "i", "r", " ", "K", "a", "r", "t",
      "u", ":", "*", " ">>

LitMerchant ==
    <<"\n", "*", "M", "e", "r", "c", "h", "a", "n", "t", "/", "A", "T",
      "M", ":", "*", " ">>

LitTanggal ==
    <<"\n", "*", "T", "a", "n", "g", "g", "a", "l", " ", "T", "r", "a",
      "n", "s", "a", "k", "s", "i", ":", "*", " ">>

LitNominal ==
    <<"\n", "*", "N", "o", "m", "i", "n", "a", "l", ":", "*", " ">>

NoSubject ==
    <<"(", "N", "o", " ", "S", "u", "b", "j", "e", "c", "t", ")">>

UnknownSender ==
    <<"(", "U", "n", "k", "n", "o", "w", "n", " ", "S", "e", "n", "d", "e",
      "r", ")">>

EmailTextFragments ==
    { <<"F", "r", "o", "m", ":", " ", "a", "_", "b", "@", "c", ".", "i",
        "d", "\n">>,
      <<"S", "u", "b", "j", "e", "c", "t", ":", " ", "x", "*", "y", "\n">>,
      <<"D", "a", "t", "e", ":", " ", "1", "[", "2", "\n">>,
      <<"N", "o", "m", "i", "n", "a", "l", ":", " ", "5", "_", "0", "\n">> }

EmailHtmls ==
    { <<>>,
      <<"M", "e", "r", "c", "h", "a", "n", "t", "/", "A", "T", "M", ":",
        " ", "M", "*", "<", "b", "r", ">">> }

EmailSubjects == { <<>>, <<"s", "_">> }

SenderName == <<"n", "*">>

SenderAddress ==
    <<"u", "_", "v", "@", "w", ".", "i", "d">>

Emails ==
    { [parsed |-> TRUE, text |-> t, html |-> h, subject |-> sj,
       hasFrom |-> hf, name |-> IF hf THEN SenderName ELSE <<>>,
       address |-> IF hf THEN SenderAddress ELSE <<>>] :
        t \in Concats(EmailTextFragments, MaxEmailFrags), h \in EmailHtmls,
        sj \in EmailSubjects, hf \in BOOLEAN }

\* A piece of the message: template text of the source (lit) or a value
\* taken from the email.
Lit(t) == [lit |-> TRUE, text |-> t]

Val(t) == [lit |-> FALSE, text |-> t]

RECURSIVE Flatten(_)
Flatten(ps) == IF ps = <<>> THEN <<>> ELSE Head(ps).text \o Flatten(Tail(ps))

\* Lines 26-28.
SubjectOf(forwarded, e) == OptOr(forwarded.subject, Or(e.subject, NoSubject))

FromOf(forwarded, e) ==
    OptOr(forwarded.from,
          IF e.hasFrom
          THEN e.name \o <<" ", "<">> \o e.address \o <<">">>
          ELSE UnknownSender)

DateOf(forwarded) == OptOr(forwarded.date, <<>>)

\* Lines 33-45.
MessageParts(from, subject, date, details) ==
    <<Lit(LitHead), Val(from), Lit(LitAfterFrom),
      Lit(LitSubject), Val(escapeMarkdown(subject)), Lit(LitNewline)>>
    \o (IF date # <<>>
        THEN <<Lit(LitDate), Val(escapeMarkdown(date)), Lit(LitNewline)>>
        ELSE <<>>)
    \o <<Lit(LitKartu), Val(escapeMarkdown(details.akhirKartu)),
         Lit(LitMerchant), Val(escapeMarkdown(details.merchant)),
         Lit(LitTanggal), Val(escapeMarkdown(details.tanggalTransaksi)),
         Lit(LitNominal), Val(escapeMarkdown(details.nominal))>>

\* Variant of InTry: the send awaited after the try block.
InTryParseOnly(p) == p \in {"parse", "build"}

\* The positions covered by try { ... } (lines 18-49).
InTry(p) == p \in {"parse", "build", "send", "errortext"}

\* An exception raised at the current position: caught when inside the try
\* block, otherwise it leaves email().
Raise(err) ==
    /\ pending' = err
    /\ IF InTry(pc)
       THEN pc' = "catch" /\ UNCHANGED propagated
       ELSE pc' = "done" /\ propagated' = TRUE

InitEmail ==
    /\ pc = "start"
    /\ content = <<>>
    /\ fwd = NoFwd
    /\ tx = NoTx
    /\ cleaned = <<>>
    /\ env \in [token : BOOLEAN, chat : BOOLEAN]
    /\ email = NoEmail
    /\ parts = <<>>
    /\ telegramMessage = <<>>
    /\ sends = 0
    /\ response = "none"
    /\ logs = <<>>
    /\ pending = "none"
    /\ propagated = FALSE

\* Lines 10-16.
CheckConfig ==
    /\ pc = "start"
    /\ IF ~env.token \/ ~env.chat
       THEN /\ logs' = Append(logs, "Missing Telegram configuration")
            /\ pc' = "done"
       ELSE /\ pc' = "parse"
            /\ UNCHANGED logs
    /\ UNCHANGED <<content, fwd, tx, cleaned, env, email, parts,
                   telegramMessage, sends, response, pending, propagated>>

\* Line 20: parser.parse(message.raw) resolves.
ParseResolves ==
    /\ pc = "parse"
    /\ \E e \in Emails : email' = e
    /\ pc' = "build"
    /\ UNCHANGED <<content, fwd, tx, cleaned, env, parts, telegramMessage,
                   sends, response, logs, pending, propagated>>

\* Line 20: parser.parse(message.raw) rejects.
ParseRejects ==
    /\ pc = "parse"
    /\ Raise("parse")
    /\ UNCHANGED <<content, fwd, tx, cleaned, env, email, parts,
                   telegramMessage, sends, response, logs>>

\* Lines 23-45.
Build ==
    /\ pc = "build"
    /\ LET forwarded == parseForwardedMail(Or(Or(email.text, email.html), <<>>))
           transactionDetails ==
               parseTransactionDetails(Or(Or(email.html, email.text), <<>>))
           pieces == MessageParts(FromOf(forwarded, email),
                                  SubjectOf(forwarded, email),
                                  DateOf(forwarded), transactionDetails)
       IN  /\ fwd' = forwarded
           /\ tx' = transactionDetails
           /\ parts' = pieces
           /\ telegramMessage' = Flatten(pieces)
    /\ pc' = "send"
    /\ UNCHANGED <<content, cleaned, env, email, sends, response, logs,
                   pending, propagated>>

\* Lines 47, 139-147: fetch resolves, with response.ok or without.
FetchResolves ==
    /\ pc = "send"
    /\ sends' = sends + 1
    /\ \E ok \in BOOLEAN :
           /\ response' = IF ok THEN "ok" ELSE "error"
           /\ pc' = IF ok THEN "done" ELSE "errortext"
    /\ UNCHANGED <<content, fwd, tx, cleaned, env, email, parts,
                   telegramMessage, logs, pending, propagated>>

\* Line 139: fetch rejects (network failure).
FetchRejects ==
    /\ pc = "send"
    /\ sends' = sends + 1
    /\ response' = "threw"
    /\ Raise("fetch")
    /\ UNCHANGED <<content, fwd, tx, cleaned, env, email, parts,
                   telegramMessage, logs>>

\* Lines 148-149: response.text() resolves and the error is logged.
ErrorTextResolves ==
    /\ pc = "errortext"
    /\ logs' = Append(logs, "Telegram API error")
    /\ pc' = "done"
    /\ UNCHANGED <<content, fwd, tx, cleaned, env, email, parts,
                   telegramMessage, sends, response, pending, propagated>>

\* Line 148: response.text() rejects.
ErrorTextRejects ==
    /\ pc = "errortext"
    /\ Raise("text")
    /\ UNCHANGED <<content, fwd, tx, cleaned, env, email, parts,
                   telegramMessage, sends, response, logs>>

\* Lines 49-52.
Catch ==
    /\ pc = "catch"
    /\ logs' = Append(logs, "Error parsing email or sending to Telegram")
    /\ pending' = "none"
    /\ pc' = "done"
    /\ UNCHANGED <<content, fwd, tx, cleaned, env, email, parts,
                   telegramMessage, sends, response, propagated>>

NextEmail ==
    \/ CheckConfig
    \/ ParseResolves
    \/ ParseRejects
    \/ Build
    \/ FetchResolves
    \/ FetchRejects
    \/ ErrorTextResolves
    \/ ErrorTextRejects
    \/ Catch

SpecEmail == InitEmail /\ [][NextEmail]_vars

-----------------------------------------------------------------------------
(* C5                                                                      *)

\* Every "_", "*", backtick or "[" of t has a backslash right before it.
NoUnescaped(t) ==
    \A i \in 1..Len(t) :
        t[i] \in MarkdownSpecial => (i > 1 /\ t[i - 1] = "\\")

\* C5: every value embedded in the outbound message went through
\* escapeMarkdown, so none holds an unescaped "_", "*", backtick or "[".
C5_ValuesEscaped ==
    /\ telegramMessage = Flatten(parts)
    /\ \A k \in 1..Len(parts) :
           ~parts[k].lit => NoUnescaped(parts[k].text)

-----------------------------------------------------------------------------
(* C10                                                                     *)

Configured == env.token /\ env.chat

\* Build is synchronous code: the handler does not rest at its start.  Its
\* guard is pc = "build" alone, and fairness is stated on that guard.
LeavesBuild ==
    /\ pc = "build"
    /\ pc' = "send"
    /\ UNCHANGED <<content, fwd, tx, cleaned, env, email, parts,
                   telegramMessage, sends, response, logs, pending,
                   propagated>>

\* The scheduling of the handler: every awaited promise settles and the
\* continuation then runs.
SpecEmailFair ==
    /\ SpecEmail
    /\ WF_vars(CheckConfig)
    /\ WF_vars(ParseResolves \/ ParseRejects)
    /\ WF_vars(LeavesBuild)
    /\ WF_vars(FetchResolves \/ FetchRejects)
    /\ WF_vars(ErrorTextResolves \/ ErrorTextRejects)
    /\ WF_vars(Catch)

HandlerContained ==
    /\ ~propagated
    /\ sends <= 1
    /\ pc = "done" =>
           /\ pending = "none"
           /\ ~Configured =>
                  /\ ~email.parsed
                  /\ sends = 0
                  /\ logs = <<"Missing Telegram configuration">>
           /\ (Configured /\ ~email.parsed) =>
                  /\ sends = 0
                  /\ logs = <<"Error parsing email or sending to Telegram">>
           /\ (Configured /\ email.parsed) =>
                  /\ sends = 1
                  /\ response = "ok" => logs = <<>>
                  /\ response \in {"error", "threw"} => Len(logs) = 1

\* C10: one invocation completes and no exception leaves the handler;
\* without configuration nothing is parsed or sent; a failed parse sends
\* nothing; otherwise the message is sent exactly once, and a failed or
\* throwing send is logged once and never retried.
C10_HandlerContained == []HandlerContained /\ <>(pc = "done")

\* A send that threw: one attempt, one log entry, the handler done.
C10_Witness ==
    /\ pc = "done"
    /\ response = "threw"
    /\ sends = 1
    /\ logs = <<"Error parsing email or sending to Telegram">>

====
